---- MODULE Spec2Model ----
(***************************************************************************)
(* Model of the version-compare library: src/src/comp_op.rs (the CompOp    *)
(* operator algebra) and src/src/version.rs (Version::from, compare,       *)
(* compare_to, compare_iter).                                              *)
(*                                                                         *)
(* A Rust &str is a sequence of one-character strings.  A slice iterator   *)
(* is the sequence of the items it has not yielded yet.  A panic!() is the *)
(* value PANIC.                                                            *)
(***************************************************************************)
EXTENDS Integers, Sequences, FiniteSets, TLC

VARIABLES pc, version, parsed, self, other, third, operator, result,
          result_bc, result_ac, matched, calls

vars == <<pc, version, parsed, self, other, third, operator, result,
          result_bc, result_ac, matched, calls>>

---------------------------------------------------------------------------
(* Bounds                                                                  *)

\* Most dot-separated tokens in a version string handed to compare.
MaxParts == 3

\* Most tokens in the three version strings of the transitivity runs.
MaxPartsTrans == 2

\* Most characters in a string handed to Version::from in the parsing runs.
MaxStrLen == 4

\* Most operator transforms applied in a row.
MaxCalls == 3

---------------------------------------------------------------------------
(* comp_op.rs                                                              *)

CompOp == {"EQ", "NE", "LT", "LE", "GE", "GT"}

PANIC == "PANIC"

\* Fault injection: invert written with the rows of opposite for the
\* strict and non-strict orderings.
invert_as_opposite(op) ==
    CASE op = "EQ" -> "NE"
      [] op = "NE" -> "EQ"
      [] op = "LT" -> "GT"
      [] op = "LE" -> "GE"
      [] op = "GE" -> "LE"
      [] op = "GT" -> "LT"

invert(op) ==
    CASE op = "EQ" -> "NE"
      [] op = "NE" -> "EQ"
      [] op = "LT" -> "GE"
      [] op = "LE" -> "GT"
      [] op = "GE" -> "LT"
      [] op = "GT" -> "LE"

\* Fault injection: opposite with the LE and GE rows of invert.
opposite_mixed(op) ==
    CASE op = "EQ" -> "NE"
      [] op = "NE" -> "EQ"
      [] op = "LT" -> "GT"
      [] op = "LE" -> "GT"
      [] op = "GE" -> "LT"
      [] op = "GT" -> "LT"

opposite(op) ==
    CASE op = "EQ" -> "NE"
      [] op = "NE" -> "EQ"
      [] op = "LT" -> "GT"
      [] op = "LE" -> "GE"
      [] op = "GE" -> "LE"
      [] op = "GT" -> "LT"

\* Fault injection: flip that returns its argument.
flip_unchanged(op) == op

\* Fault injection: flip that also exchanges EQ and NE.
flip_exchanging_eq(op) ==
    CASE op = "LT" -> "GT"
      [] op = "LE" -> "GE"
      [] op = "GE" -> "LE"
      [] op = "GT" -> "LT"
      [] op = "EQ" -> "NE"
      [] op = "NE" -> "EQ"

flip(op) ==
    CASE op = "LT" -> "GT"
      [] op = "LE" -> "GE"
      [] op = "GE" -> "LE"
      [] op = "GT" -> "LT"
      [] OTHER -> op

---------------------------------------------------------------------------
(* version.rs: parsing                                                     *)

Number(n) == [kind |-> "Number", num |-> n, text |-> <<>>]

Text(t) == [kind |-> "Text", num |-> 0, text |-> t]

None == [some |-> FALSE, value |-> <<>>]

Some(v) == [some |-> TRUE, value |-> v]

I32Max == 2147483647

I32Min == -I32Max - 1

Digits == {"0", "1", "2", "3", "4", "5", "6", "7", "8", "9"}

DigitValue(c) ==
    CASE c = "0" -> 0 [] c = "1" -> 1 [] c = "2" -> 2 [] c = "3" -> 3
      [] c = "4" -> 4 [] c = "5" -> 5 [] c = "6" -> 6 [] c = "7" -> 7
      [] c = "8" -> 8 [] c = "9" -> 9

\* Accumulate the digits of a non-negative number; Err on a non-digit or
\* when the value leaves the i32 range.
RECURSIVE ParsePositive(_, _)
ParsePositive(digits, acc) ==
    IF digits = <<>> THEN Some(acc)
    ELSE IF Head(digits) \notin Digits THEN None
    ELSE IF acc > I32Max \div 10 THEN None
    ELSE IF acc * 10 > I32Max - DigitValue(Head(digits)) THEN None
    ELSE ParsePositive(Tail(digits), acc * 10 + DigitValue(Head(digits)))

\* Accumulate the digits of a negative number downwards, so that i32::MIN
\* parses.
RECURSIVE ParseNegative(_, _)
ParseNegative(digits, acc) ==
    IF digits = <<>> THEN Some(acc)
    ELSE IF Head(digits) \notin Digits THEN None
    ELSE IF acc < -(I32Max \div 10) THEN None
    ELSE IF acc * 10 < I32Min + DigitValue(Head(digits)) THEN None
    ELSE ParseNegative(Tail(digits), acc * 10 - DigitValue(Head(digits)))

\* part.parse::<i32>(): an optional sign, then at least one decimal digit,
\* nothing else, and a value that fits 32 bits.
ParseI32(part) ==
    IF part = <<>> THEN None
    ELSE IF Head(part) \in {"+", "-"} /\ Len(part) = 1 THEN None
    ELSE IF Head(part) = "+" THEN ParsePositive(Tail(part), 0)
    ELSE IF Head(part) = "-" THEN ParseNegative(Tail(part), 0)
    ELSE ParsePositive(part, 0)

\* version.split('.'): the pieces between the dots, empty pieces included;
\* n dots give n + 1 pieces.
RECURSIVE split(_)
split(s) ==
    IF \A i \in 1..Len(s) : s[i] # "."
    THEN <<s>>
    ELSE LET i == CHOOSE k \in 1..Len(s) :
                     s[k] = "." /\ \A j \in 1..(k - 1) : s[j] # "."
         IN  <<SubSeq(s, 1, i - 1)>> \o split(SubSeq(s, i + 1, Len(s)))

\* The for loop of split_version_str over the pieces still to visit.
RECURSIVE SplitLoop(_, _, _)
SplitLoop(pieces, parts, has_number) ==
    IF pieces = <<>> THEN [parts |-> parts, has_number |-> has_number]
    ELSE LET part == Head(pieces) IN
         IF part = <<>>
         THEN SplitLoop(Tail(pieces), parts, has_number)
         ELSE LET number == ParseI32(part) IN
              IF number.some
              THEN SplitLoop(Tail(pieces), Append(parts, Number(number.value)), TRUE)
              ELSE SplitLoop(Tail(pieces), Append(parts, Text(part)), has_number)

\* Fault injection: the final test without its !parts.is_empty() half.
split_version_str_number_required(v) ==
    LET r == SplitLoop(split(v), <<>>, FALSE) IN
    IF ~r.has_number THEN None ELSE Some(r.parts)

split_version_str(v) ==
    LET r == SplitLoop(split(v), <<>>, FALSE) IN
    IF ~r.has_number /\ r.parts # <<>> THEN None ELSE Some(r.parts)

from(v) ==
    LET parts == split_version_str(v) IN
    IF ~parts.some THEN None
    ELSE Some([version |-> v, parts |-> parts.value])

---------------------------------------------------------------------------
(* version.rs: comparison                                                  *)

\* Fault injection: the other version's next part taken without the loop
\* that passes over Text parts.
NextOtherNoSkip(other_iter) ==
    IF other_iter = <<>>
    THEN [other_part |-> None, other_iter |-> <<>>]
    ELSE [other_part |-> Some(Head(other_iter)), other_iter |-> Tail(other_iter)]

\* The inner loop of compare_iter: take items from other_iter until a
\* Number or the end.
RECURSIVE NextOther(_)
NextOther(other_iter) ==
    IF other_iter = <<>>
    THEN [other_part |-> None, other_iter |-> <<>>]
    ELSE IF Head(other_iter).kind = "Number"
    THEN [other_part |-> Some(Head(other_iter)), other_iter |-> Tail(other_iter)]
    ELSE NextOther(Tail(other_iter))

\* Fault injection: every number passed over once the other version is
\* exhausted, zero or not.
IsZeroAnyNumber(part) == part.kind = "Number"

\* The match on the main version's part once the other version has no
\* parts left: is it the number zero?
IsZero(part) == part.kind = "Number" /\ part.num = 0

\* Fault injection: the first guard of the match written with <=.
CompareNumbersOrEqual(num, other_num) ==
    CASE num <= other_num -> "LT"
      [] num > other_num -> "GT"
      [] num = other_num -> "continue"
      [] OTHER -> PANIC

\* The match on the two numbers.
CompareNumbers(num, other_num) ==
    CASE num < other_num -> "LT"
      [] num > other_num -> "GT"
      [] num = other_num -> "continue"
      [] OTHER -> PANIC

\* The outer loop of compare_iter.  ret is the value returned from inside
\* the loop, or "break" when the loop ends with iter exhausted.
RECURSIVE MainLoop(_, _)
MainLoop(iter, other_iter) ==
    IF iter = <<>>
    THEN [ret |-> "break", iter |-> <<>>, other_iter |-> other_iter]
    ELSE LET part == Head(iter)
             rest == Tail(iter)
         IN
         IF part.kind # "Number" THEN MainLoop(rest, other_iter)
         ELSE LET o == NextOther(other_iter) IN
              IF ~o.other_part.some
              THEN IF IsZero(part)
                   THEN MainLoop(rest, o.other_iter)
                   ELSE [ret |-> "GT", iter |-> rest, other_iter |-> o.other_iter]
              ELSE LET r == IF part.kind = "Number"
                            THEN IF o.other_part.value.kind = "Number"
                                 THEN CompareNumbers(part.num, o.other_part.value.num)
                                 ELSE PANIC
                            ELSE PANIC
                   IN  IF r = "continue"
                       THEN MainLoop(rest, o.other_iter)
                       ELSE [ret |-> r, iter |-> rest, other_iter |-> o.other_iter]

RECURSIVE compare_iter(_, _)
compare_iter(iter, other_iter) ==
    LET l == MainLoop(iter, other_iter) IN
    IF l.ret # "break" THEN l.ret
    ELSE IF l.other_iter # <<>>
    THEN LET r == compare_iter(l.other_iter, l.iter) IN
         IF r = PANIC THEN PANIC ELSE flip(r)
    ELSE "EQ"

compare(a, b) == compare_iter(a.parts, b.parts)

Returned(v) == [panicked |-> FALSE, value |-> v]

Panicked == [panicked |-> TRUE, value |-> FALSE]

\* Fault injection: an EQ result accepted for the operator EQ only.
compare_to_strict_eq(a, b, op) ==
    LET r == compare(a, b) IN
    CASE r = "EQ" -> Returned(op \in {"EQ"})
      [] r = "LT" -> Returned(op \in {"NE", "LT", "LE"})
      [] r = "GT" -> Returned(op \in {"NE", "GT", "GE"})
      [] OTHER -> Panicked

compare_to(a, b, op) ==
    LET r == compare(a, b) IN
    CASE r = "EQ" -> Returned(op \in {"EQ", "LE", "GE"})
      [] r = "LT" -> Returned(op \in {"NE", "LT", "LE"})
      [] r = "GT" -> Returned(op \in {"NE", "GT", "GE"})
      [] OTHER -> Panicked

---------------------------------------------------------------------------
(* Inputs                                                                  *)

\* The tokens version strings are built from: zero, a positive and a
\* negative number, and a token that is no number.
Tokens == {<<"0">>, <<"1">>, <<"-", "1">>, <<"a">>}

RECURSIVE Join(_)
Join(tokens) ==
    IF tokens = <<>> THEN <<>>
    ELSE IF Len(tokens) = 1 THEN Head(tokens)
    ELSE Head(tokens) \o <<".">> \o Join(Tail(tokens))

TokenSeqs(n) == UNION {[1..k -> Tokens] : k \in 0..n}

\* The Version values Version::from builds from the strings of at most n
\* tokens.
VersionsUpTo(n) ==
    {from(Join(t)).value : t \in {u \in TokenSeqs(n) : from(Join(u)).some}}

Versions == VersionsUpTo(MaxParts)

VersionsTrans == VersionsUpTo(MaxPartsTrans)

Chars == {".", "0", "1", "-", "+", "a"}

\* Strings around the ends of the i32 range.
LongStrings ==
    { <<"2", "1", "4", "7", "4", "8", "3", "6", "4", "7">>,
      <<"2", "1", "4", "7", "4", "8", "3", "6", "4", "8">>,
      <<"-", "2", "1", "4", "7", "4", "8", "3", "6", "4", "8">>,
      <<"-", "2", "1", "4", "7", "4", "8", "3", "6", "4", "9">>,
      <<"1", ".", "2", "1", "4", "7", "4", "8", "3", "6", "4", "8">>,
      <<"9", "9", "9", "9", "9", "9", "9", "9", "9", "9", "9">> }

Strings == (UNION {[1..k -> Chars] : k \in 0..MaxStrLen}) \cup LongStrings

EmptyVersion == [version |-> <<>>, parts |-> <<>>]

NotCalled == [panicked |-> FALSE, value |-> FALSE, called |-> FALSE]

---------------------------------------------------------------------------
(* Specifications                                                          *)

Idle ==
    /\ version = <<>>
    /\ parsed = None
    /\ third = EmptyVersion
    /\ operator = "EQ"
    /\ result = "none"
    /\ result_bc = "none"
    /\ result_ac = "none"
    /\ matched = NotCalled
    /\ calls = <<>>

\* One call of compare or of compare_to on a pair of versions.
Init ==
    /\ pc = "ready"
    /\ self \in Versions
    /\ other \in Versions
    /\ Idle

Compare ==
    /\ pc = "ready"
    /\ result' = compare(self, other)
    /\ pc' = "compared"
    /\ UNCHANGED <<version, parsed, self, other, third, operator,
                   result_bc, result_ac, matched, calls>>

CompareTo ==
    /\ pc = "ready"
    /\ \E op \in CompOp :
          /\ operator' = op
          /\ matched' = compare_to(self, other, op)
    /\ pc' = "matched"
    /\ UNCHANGED <<version, parsed, self, other, third, result,
                   result_bc, result_ac, calls>>

Next == Compare \/ CompareTo

Spec == Init /\ [][Next]_vars

\* Three versions compared pairwise.
InitTrans ==
    /\ pc = "ready"
    /\ self \in VersionsTrans
    /\ other \in VersionsTrans
    /\ third \in VersionsTrans
    /\ version = <<>>
    /\ parsed = None
    /\ operator = "EQ"
    /\ result = "none"
    /\ result_bc = "none"
    /\ result_ac = "none"
    /\ matched = NotCalled
    /\ calls = <<>>

CompareAB ==
    /\ pc = "ready"
    /\ result' = compare(self, other)
    /\ pc' = "ab"
    /\ UNCHANGED <<version, parsed, self, other, third, operator,
                   result_bc, result_ac, matched, calls>>

CompareBC ==
    /\ pc = "ab"
    /\ result_bc' = compare(other, third)
    /\ pc' = "bc"
    /\ UNCHANGED <<version, parsed, self, other, third, operator,
                   result, result_ac, matched, calls>>

CompareAC ==
    /\ pc = "bc"
    /\ result_ac' = compare(self, third)
    /\ pc' = "ac"
    /\ UNCHANGED <<version, parsed, self, other, third, operator,
                   result, result_bc, matched, calls>>

NextTrans == CompareAB \/ CompareBC \/ CompareAC

SpecTrans == InitTrans /\ [][NextTrans]_vars

\* One call of Version::from on a string.
InitParse ==
    /\ pc = "ready"
    /\ version \in Strings
    /\ parsed = None
    /\ self = EmptyVersion
    /\ other = EmptyVersion
    /\ third = EmptyVersion
    /\ operator = "EQ"
    /\ result = "none"
    /\ result_bc = "none"
    /\ result_ac = "none"
    /\ matched = NotCalled
    /\ calls = <<>>

From ==
    /\ pc = "ready"
    /\ parsed' = from(version)
    /\ pc' = "parsed"
    /\ UNCHANGED <<version, self, other, third, operator, result,
                   result_bc, result_ac, matched, calls>>

NextParse == From

SpecParse == InitParse /\ [][NextParse]_vars

\* A chain of operator transforms; calls records each call's argument and
\* return value.
InitOps ==
    /\ pc = "ready"
    /\ operator \in CompOp
    /\ calls = <<>>
    /\ version = <<>>
    /\ parsed = None
    /\ self = EmptyVersion
    /\ other = EmptyVersion
    /\ third = EmptyVersion
    /\ result = "none"
    /\ result_bc = "none"
    /\ result_ac = "none"
    /\ matched = NotCalled

Call(fn, ret) ==
    /\ Len(calls) < MaxCalls
    /\ operator' = ret
    /\ calls' = Append(calls, [fn |-> fn, arg |-> operator, ret |-> ret])
    /\ UNCHANGED <<pc, version, parsed, self, other, third, result,
                   result_bc, result_ac, matched>>

Invert == Call("invert", invert(operator))

Opposite == Call("opposite", opposite(operator))

Flip == Call("flip", flip(operator))

NextOps == Invert \/ Opposite \/ Flip

SpecOps == InitOps /\ [][NextOps]_vars

\* compare_iter run one step at a time.  calls is the stack of compare_iter
\* calls, the innermost last; each holds its two iterators.
Frame(iter, other_iter) ==
    [fn |-> "compare_iter", iter |-> iter, other_iter |-> other_iter]

\* Fault injection: a Text part of the main version ends the loop instead
\* of being passed over.
LoopStepBreakOnText(iter, other_iter) ==
    IF iter = <<>>
    THEN [ret |-> "break", iter |-> <<>>, other_iter |-> other_iter]
    ELSE LET part == Head(iter)
             rest == Tail(iter)
         IN
         IF part.kind # "Number"
         THEN [ret |-> "break", iter |-> rest, other_iter |-> other_iter]
         ELSE LET o == NextOther(other_iter) IN
              IF ~o.other_part.some
              THEN IF IsZero(part)
                   THEN [ret |-> "continue", iter |-> rest, other_iter |-> o.other_iter]
                   ELSE [ret |-> "GT", iter |-> rest, other_iter |-> o.other_iter]
              ELSE [ret |-> IF part.kind = "Number"
                            THEN IF o.other_part.value.kind = "Number"
                                 THEN CompareNumbers(part.num, o.other_part.value.num)
                                 ELSE PANIC
                            ELSE PANIC,
                    iter |-> rest, other_iter |-> o.other_iter]

\* One pass through the body of the outer loop of compare_iter: ret is
\* "continue", "break" (iter.next() gave None) or the value returned.
LoopStep(iter, other_iter) ==
    IF iter = <<>>
    THEN [ret |-> "break", iter |-> <<>>, other_iter |-> other_iter]
    ELSE LET part == Head(iter)
             rest == Tail(iter)
         IN
         IF part.kind # "Number"
         THEN [ret |-> "continue", iter |-> rest, other_iter |-> other_iter]
         ELSE LET o == NextOther(other_iter) IN
              IF ~o.other_part.some
              THEN IF IsZero(part)
                   THEN [ret |-> "continue", iter |-> rest, other_iter |-> o.other_iter]
                   ELSE [ret |-> "GT", iter |-> rest, other_iter |-> o.other_iter]
              ELSE [ret |-> IF part.kind = "Number"
                            THEN IF o.other_part.value.kind = "Number"
                                 THEN CompareNumbers(part.num, o.other_part.value.num)
                                 ELSE PANIC
                            ELSE PANIC,
                    iter |-> rest, other_iter |-> o.other_iter]

Top == calls[Len(calls)]

InitIter ==
    /\ pc = "ready"
    /\ self \in Versions
    /\ other \in Versions
    /\ Idle

\* compare calls compare_iter with the iterators of the two versions.
Enter ==
    /\ pc = "ready"
    /\ calls' = <<Frame(self.parts, other.parts)>>
    /\ pc' = "loop"
    /\ UNCHANGED <<version, parsed, self, other, third, operator, result,
                   result_bc, result_ac, matched>>

\* One pass through the outer loop in the innermost call.
Iterate ==
    /\ pc = "loop"
    /\ LET step == LoopStep(Top.iter, Top.other_iter) IN
          /\ calls' = [calls EXCEPT ![Len(calls)] =
                          Frame(step.iter, step.other_iter)]
          /\ IF step.ret = "continue"
             THEN pc' = "loop" /\ UNCHANGED result
             ELSE IF step.ret = "break"
             THEN pc' = "peek" /\ UNCHANGED result
             ELSE pc' = "return" /\ result' = step.ret
    /\ UNCHANGED <<version, parsed, self, other, third, operator,
                   result_bc, result_ac, matched>>

\* other_iter.peek() is Some: call compare_iter with the roles swapped.
Swap ==
    /\ pc = "peek"
    /\ Top.other_iter # <<>>
    /\ calls' = Append(calls, Frame(Top.other_iter, Top.iter))
    /\ pc' = "loop"
    /\ UNCHANGED <<version, parsed, self, other, third, operator, result,
                   result_bc, result_ac, matched>>

\* other_iter.peek() is None: the call returns Eq.
ReturnEq ==
    /\ pc = "peek"
    /\ Top.other_iter = <<>>
    /\ result' = "EQ"
    /\ pc' = "return"
    /\ UNCHANGED <<version, parsed, self, other, third, operator, calls,
                   result_bc, result_ac, matched>>

\* A role-swapped call returns to its caller, which flips the value.
Unwind ==
    /\ pc = "return"
    /\ Len(calls) > 1
    /\ calls' = SubSeq(calls, 1, Len(calls) - 1)
    /\ result' = IF result = PANIC THEN PANIC ELSE flip(result)
    /\ UNCHANGED <<pc, version, parsed, self, other, third, operator,
                   result_bc, result_ac, matched>>

\* The outermost call returns to compare.
Finish ==
    /\ pc = "return"
    /\ Len(calls) = 1
    /\ calls' = <<>>
    /\ pc' = "done"
    /\ UNCHANGED <<version, parsed, self, other, third, operator, result,
                   result_bc, result_ac, matched>>

NextIter == Enter \/ Iterate \/ Swap \/ ReturnEq \/ Unwind \/ Finish

\* The code is sequential: a step that can be taken is taken.
SpecIter == InitIter /\ [][NextIter]_vars /\ WF_vars(NextIter)

---------------------------------------------------------------------------
(* Vocabulary of the properties                                            *)

Raw == {"LT", "EQ", "GT"}

\* The numeric subsequence of a version: the values of its Number parts.
RECURSIVE NumbersOf(_)
NumbersOf(parts) ==
    IF parts = <<>> THEN <<>>
    ELSE IF Head(parts).kind = "Number"
    THEN <<Head(parts).num>> \o NumbersOf(Tail(parts))
    ELSE NumbersOf(Tail(parts))

HasText(v) == \E i \in 1..Len(v.parts) : v.parts[i].kind = "Text"

\* The version parsed from v's string with the Text tokens left out.
WithoutText(v) ==
    CHOOSE w \in Versions : ~HasText(w) /\ NumbersOf(w.parts) = NumbersOf(v.parts)

\* The version parsed from v's string with k tokens "0" appended.
RECURSIVE WithZeros(_, _)
WithZeros(v, k) ==
    IF k = 0 THEN v
    ELSE WithZeros(from(v.version \o <<".", "0">>).value, k - 1)

\* Most zero tokens appended to a version.
MaxZeros == 2

\* p is a proper prefix of q.
ProperPrefix(p, q) == Len(p) < Len(q) /\ SubSeq(q, 1, Len(p)) = p

\* The numbers of b are a prefix of the numbers of a, and a has a non-zero
\* number after that prefix.
StrictlyExtends(a, b) ==
    LET na == NumbersOf(a.parts)
        nb == NumbersOf(b.parts)
    IN  /\ ProperPrefix(nb, na)
        /\ \E i \in (Len(nb) + 1)..Len(na) : na[i] # 0

---------------------------------------------------------------------------
(* C1: compare is transitive: if compare(a,b) and compare(b,c) are each LT *)
(* or EQ then compare(a,c) is LT or EQ, and if both are EQ then            *)
(* compare(a,c) is EQ, numbers with a leading minus included.              *)
Transitive ==
    pc = "ac" =>
        /\ (result \in {"LT", "EQ"} /\ result_bc \in {"LT", "EQ"})
               => result_ac \in {"LT", "EQ"}
        /\ (result = "EQ" /\ result_bc = "EQ") => result_ac = "EQ"

(* C2: compare is antisymmetric: compare(a,b) is GT exactly when           *)
(* compare(b,a) is LT, and EQ exactly when compare(b,a) is EQ.             *)
Antisymmetric ==
    pc = "compared" =>
        LET back == compare(other, self) IN
        /\ result = "GT" <=> back = "LT"
        /\ result = "EQ" <=> back = "EQ"
        /\ result = "LT" <=> back = "GT"

\* The comparison went through the role-swapped call and came back LT.
AntisymmetricWitness ==
    /\ pc = "compared"
    /\ result = "LT"
    /\ ProperPrefix(NumbersOf(self.parts), NumbersOf(other.parts))
    /\ compare(other, self) = "GT"

(* C3: appending zero tokens to a version a gives a version that compares  *)
(* EQ to a and that compares to every version b, in both directions, as a  *)
(* does.                                                                   *)
TrailingZeros ==
    pc = "compared" =>
        \A k \in 1..MaxZeros :
            LET longer == WithZeros(self, k) IN
            /\ compare(longer, self) = "EQ"
            /\ compare(longer, other) = result
            /\ compare(other, longer) = compare(other, self)

(* C4: compare(a,b) equals the comparison of a and b with every Text       *)
(* segment removed; versions with the same numbers compare EQ.             *)
TextTransparent ==
    pc = "compared" =>
        /\ result = compare(WithoutText(self), WithoutText(other))
        /\ NumbersOf(self.parts) = NumbersOf(other.parts) => result = "EQ"

\* Text between two numbers on one side, leading text on the other, and
\* the numbers decide.
TextTransparentWitness ==
    /\ pc = "compared"
    /\ Len(self.parts) = 3
    /\ self.parts[1].kind = "Number"
    /\ self.parts[2].kind = "Text"
    /\ self.parts[3].kind = "Number"
    /\ Len(other.parts) = 3
    /\ other.parts[1].kind = "Text"
    /\ other.parts[3].kind = "Text"
    /\ result = "GT"

(* C5: when the numbers of b are a prefix of the numbers of a and a has a  *)
(* non-zero number after that prefix, compare(a,b) is GT and compare(b,a)  *)
(* is LT.                                                                  *)
StrictExtension ==
    pc = "compared" =>
        (StrictlyExtends(self, other) =>
            result = "GT" /\ compare(other, self) = "LT")

\* The extension starts with a zero, which is passed over, then a non-zero.
StrictExtensionWitness ==
    /\ pc = "compared"
    /\ StrictlyExtends(self, other)
    /\ Len(NumbersOf(self.parts)) = Len(NumbersOf(other.parts)) + 2
    /\ NumbersOf(self.parts)[Len(NumbersOf(other.parts)) + 1] = 0
    /\ result = "GT"

(* C6: compare returns only LT, EQ or GT, through the role-swapped call    *)
(* too, so no panic branch of compare_iter or compare_to is reached.       *)
RawOutcomesOnly ==
    /\ pc = "compared" => result \in Raw
    /\ pc = "matched" => ~matched.panicked /\ compare(self, other) \in Raw

\* compare_to returned after a comparison that swapped the roles.
RawOutcomesOnlyWitness ==
    /\ pc = "matched"
    /\ ~matched.panicked
    /\ operator = "GE"
    /\ ProperPrefix(NumbersOf(self.parts), NumbersOf(other.parts))
    /\ HasText(other)

\* The positions where a non-empty dot-delimited token of s starts.
TokenStarts(s) ==
    {i \in 1..Len(s) : s[i] # "." /\ (i = 1 \/ s[i - 1] = ".")}

\* The token of s that starts at position i: up to the next dot or the end.
TokenAt(s, i) ==
    LET end == CHOOSE j \in i..Len(s) :
                   /\ \A k \in i..j : s[k] # "."
                   /\ (j = Len(s) \/ s[j + 1] = ".")
    IN  SubSeq(s, i, end)

\* The n-th non-empty token of s, counted from the left.
NthToken(s, n) ==
    TokenAt(s, CHOOSE i \in TokenStarts(s) :
                   Cardinality({j \in TokenStarts(s) : j < i}) = n - 1)

(* C7: parsing fails exactly when the input has a non-empty token and no   *)
(* non-empty token is a Number; otherwise it succeeds with the non-empty   *)
(* tokens in left-to-right order as its segments (none for the empty       *)
(* string and for strings of dots).                                        *)
ParseFailsExactly ==
    pc = "parsed" =>
        LET starts == TokenStarts(version)
            count == Cardinality(starts)
        IN  /\ ~parsed.some <=>
                   /\ count > 0
                   /\ \A i \in starts : ~ParseI32(TokenAt(version, i)).some
            /\ parsed.some =>
                   /\ parsed.value.version = version
                   /\ Len(parsed.value.parts) = count
                   /\ \A n \in 1..count :
                          LET token == NthToken(version, n)
                              number == ParseI32(token)
                          IN  parsed.value.parts[n] =
                                  IF number.some THEN Number(number.value)
                                  ELSE Text(token)

\* A string of two tokens, neither a number, is rejected.
ParseFailsExactlyWitness ==
    /\ pc = "parsed"
    /\ ~parsed.some
    /\ Cardinality(TokenStarts(version)) = 2

\* The fixed compatibility table of the relational check.
Compatible(r, op) ==
    \/ r = "EQ" /\ op \in {"EQ", "LE", "GE"}
    \/ r = "LT" /\ op \in {"NE", "LT", "LE"}
    \/ r = "GT" /\ op \in {"NE", "GT", "GE"}

(* C8: compare_to(a,b,op) is true exactly when op is in the compatibility  *)
(* table's entry for compare(a,b).                                         *)
FollowsTable ==
    pc = "matched" =>
        /\ ~matched.panicked
        /\ matched.value <=> Compatible(compare(self, other), operator)

\* The exceptional case of the tests: a shorter version checked with NE.
FollowsTableWitness ==
    /\ pc = "matched"
    /\ operator = "NE"
    /\ matched.value
    /\ compare(self, other) = "LT"
    /\ ProperPrefix(NumbersOf(self.parts), NumbersOf(other.parts))

(* C9: compare_to(a,b,invert(op)) is the negation of compare_to(a,b,op);   *)
(* with r = compare(a,b), compare_to(a,b,r) is true and                    *)
(* compare_to(a,b,invert(r)) is false.                                     *)
InverseNegates ==
    pc = "matched" =>
        LET inverse == compare_to(self, other, invert(operator)) IN
        /\ ~matched.panicked /\ ~inverse.panicked
        /\ inverse.value <=> ~matched.value
        /\ operator = compare(self, other) => matched.value /\ ~inverse.value

\* The check the tests make: the comparison's own result as the operator.
InverseNegatesWitness ==
    /\ pc = "matched"
    /\ operator = compare(self, other)
    /\ operator = "GT"
    /\ matched.value
    /\ ~compare_to(self, other, "LE").value

InvertPairs == {{"EQ", "NE"}, {"LT", "GE"}, {"LE", "GT"}}

OppositePairs == {{"EQ", "NE"}, {"LT", "GT"}, {"LE", "GE"}}

FlipPairs == {{"LT", "GT"}, {"LE", "GE"}, {"EQ"}, {"NE"}}

(* C10: invert, opposite and flip are involutions on the six operators:    *)
(* applying one twice gives the operator back; invert pairs EQ-NE, LT-GE,  *)
(* LE-GT; opposite pairs EQ-NE, LT-GT, LE-GE; flip pairs LT-GT, LE-GE and  *)
(* fixes EQ and NE.                                                        *)
Involutions ==
    /\ \A i \in 1..Len(calls) :
          /\ calls[i].ret \in CompOp
          /\ calls[i].fn = "invert" => {calls[i].arg, calls[i].ret} \in InvertPairs
          /\ calls[i].fn = "opposite" => {calls[i].arg, calls[i].ret} \in OppositePairs
          /\ calls[i].fn = "flip" => {calls[i].arg, calls[i].ret} \in FlipPairs
    /\ \A i \in 1..(Len(calls) - 1) :
          calls[i].fn = calls[i + 1].fn => calls[i + 1].ret = calls[i].arg

\* flip applied twice to LE, after another transform produced it.
InvolutionsWitness ==
    /\ Len(calls) = 3
    /\ calls[1].fn = "invert"
    /\ calls[2].fn = "flip"
    /\ calls[3].fn = "flip"
    /\ calls[2].arg = "LE"
    /\ calls[2].ret = "GE"
    /\ operator = "LE"

NonNegative(v) ==
    \A i \in 1..Len(v.parts) : v.parts[i].kind = "Number" => v.parts[i].num >= 0

\* p followed by zeros up to length n.
PadZeros(p, n) == [i \in 1..n |-> IF i <= Len(p) THEN p[i] ELSE 0]

\* Lexicographic comparison of two number sequences of equal length.
Lexicographic(p, q) ==
    IF p = q THEN "EQ"
    ELSE LET i == CHOOSE k \in 1..Len(p) :
                     p[k] # q[k] /\ \A j \in 1..(k - 1) : p[j] = q[j]
         IN  IF p[i] < q[i] THEN "LT" ELSE "GT"

\* The reference ordering: the numbers of a and of b, the shorter padded
\* with zeros, compared lexicographically.
Reference(a, b) ==
    LET na == NumbersOf(a.parts)
        nb == NumbersOf(b.parts)
        n == IF Len(na) > Len(nb) THEN Len(na) ELSE Len(nb)
    IN  Lexicographic(PadZeros(na, n), PadZeros(nb, n))

(* C11: for versions whose numbers are all >= 0, compare(a,b) is the       *)
(* lexicographic comparison of their numbers (Text removed), the shorter   *)
(* sequence padded with zeros on the right.                                *)
MatchesReference ==
    (pc = "compared" /\ NonNegative(self) /\ NonNegative(other))
        => result = Reference(self, other)

\* The shorter version is padded twice; the second padded position decides.
MatchesReferenceWitness ==
    /\ pc = "compared"
    /\ NonNegative(self)
    /\ NonNegative(other)
    /\ HasText(self)
    /\ Len(NumbersOf(other.parts)) = Len(NumbersOf(self.parts)) + 2
    /\ ProperPrefix(NumbersOf(self.parts) \o <<0>>, NumbersOf(other.parts))
    /\ result = "LT"

\* The stepwise run ends with the value the comparison has.
IterAgreesWithCompare == pc = "done" => result = compare(self, other)

\* At most one role-swapped call is open; it was entered with the main
\* iterator exhausted, has nothing in its other iterator, and returns GT
\* (a non-zero number) or EQ (the final peek), never recursing again.
SwappedOnce ==
    /\ Len(calls) <= 2
    /\ Len(calls) = 2 =>
          /\ calls[1].iter = <<>>
          /\ calls[2].other_iter = <<>>
          /\ pc = "return" => result \in {"GT", "EQ"}

(* C12: compare terminates for every pair of versions, and the             *)
(* role-swapping call of compare_iter happens at most once: it is entered  *)
(* only with the primary iterator exhausted, so inside it the secondary is *)
(* empty, every number is settled by the zero/non-zero rule, and the final *)
(* peek ends with EQ instead of recursing.                                 *)
TerminatesSwappingOnce == []SwappedOnce /\ <>(pc = "done")

\* Inside the swapped call, after two zero numbers were passed over, the
\* final peek found nothing and the call returns EQ.
TerminatesSwappingOnceWitness ==
    /\ Len(calls) = 2
    /\ pc = "return"
    /\ result = "EQ"
    /\ calls[2].iter = <<>>
    /\ Len(NumbersOf(other.parts)) = Len(NumbersOf(self.parts)) + 2

====
